---- MODULE Spec2Model ----
(***************************************************************************)
(* RealtimeClient (lib/client.ts): session configuration, tool registry,   *)
(* input audio buffer, response creation / cancellation and tool calls,    *)
(* together with the interfaces of its collaborators (transport,           *)
(* conversation assembler) that the client code calls.                     *)
(*                                                                         *)
(* Every method of the client is a pure operator from a client state       *)
(* record to the client state record after the call.  A thrown error is    *)
(* the field `error` of the result: once it is set, the statements that    *)
(* follow the throw in the source are skipped, and the effects that        *)
(* precede it stay.  `sent` and `dispatched` are the commands handed to    *)
(* the transport and the events announced by the LAST step, in order.      *)
(***************************************************************************)
EXTENDS Naturals, Integers, Sequences, FiniteSets, TLC

\* ---------------------------------------------------------------- bounds
MaxAudio == 2          \* samples held by the input audio buffer
MaxQueue == 1          \* buffers waiting in the conversation's queued input audio
MaxInline == 1         \* tools passed inline to one updateSession call
MaxArgChunks == 2      \* argument deltas received by one function call
MaxPending == 2        \* tool handlers awaited at the same time
MaxParts == 2          \* content parts of one item
MaxSteps == 4          \* sampleCount of cancelResponse, in steps of SampleStep
MaxContent == 2        \* parts of the content of sendUserMessageContent
MaxWaiting == 1        \* callers of waitForSessionCreated that wait at once
MaxConnecting == 2     \* connect() calls that await the transport at once
SampleStep == 12       \* samples in one step of sampleCount (half a millisecond)

\* ------------------------------------------------------------- constants
Null == "null"                 \* JavaScript null
Undefined == "undefined"       \* JavaScript undefined (void 0)
NoError == "ok"                \* the call returned normally

Samples == {1, 2}
ToolNames == {"t1", "t2"}
PrototypeNames == {"constructor"}   \* a name that Object.prototype defines
ItemIds == {"i1", "i2"}

\* Errors, named after the message thrown.
ErrNotConnected == "RealtimeAPI is not connected"
ErrNotConnectedUseConnect == "Not connected, use .connect() first"
ErrAlreadyConnected == "Already connected, use .disconnect() first"
ErrConnectFailed == "Could not connect"
ErrMissingToolName == "Missing tool name in definition"
ErrToolAlreadyAdded == "Tool already added"
ErrHandlerNotFunction == "Tool handler must be a function"
ErrToolDoesNotExist == "Tool does not exist, can not be removed."
ErrToolAlreadyDefined == "Tool has already been defined"
ErrToolNotAdded == "Tool has not been added"
ErrJSONParse == "SyntaxError: Unexpected end of JSON input"
ErrHandlerIsNotFunction == "toolConfig.handler is not a function"
ErrHandlerFailed == "handler failed"
ErrTypeError == "TypeError: Cannot read properties of undefined"
ErrItemNotFound == "Could not find item"
ErrNotMessage == "Can only cancelResponse messages with type message"
ErrNotAssistant == "Can only cancelResponse messages with role assistant"
ErrNoAudio == "Could not find audio on item to cancel"

\* ------------------------------------------------------------------ state
VARIABLES
    connected,          \* realtime.isConnected()
    sessionCreated,     \* this.sessionCreated
    sessionConfig,      \* this.sessionConfig
    tools,              \* this.tools, in key (insertion) order
    inputAudioBuffer,   \* this.inputAudioBuffer
    items,              \* conversation: the ordered items
    queuedInputAudio,   \* conversation: the queued input audio
    pending,            \* tool handlers that were invoked and have not settled
    sent,               \* commands given to realtime.send by the last step
    dispatched,         \* events announced (this.dispatch) by the last step
    error,              \* NoError, or the error the last step threw
    returned,           \* the item the last step returned: <<>> or <<item>>
    waiting,            \* callers of waitForSessionCreated in its polling loop
    connecting,         \* connect() calls that await realtime.connect()
    advertised,         \* tools of the session.update sent last on the connection
    op                  \* the last step: the operation called and its arguments

vars == <<connected, sessionCreated, sessionConfig, tools, inputAudioBuffer,
          items, queuedInputAudio, pending, sent, dispatched, error,
          returned, waiting, connecting, advertised, op>>

\* The client state as one record.
Client ==
    [connected |-> connected, sessionCreated |-> sessionCreated,
     sessionConfig |-> sessionConfig, tools |-> tools,
     inputAudioBuffer |-> inputAudioBuffer, items |-> items,
     queuedInputAudio |-> queuedInputAudio, pending |-> pending,
     sent |-> sent, dispatched |-> dispatched, error |-> error,
     returned |-> returned, waiting |-> waiting, connecting |-> connecting]

\* A call starts with nothing sent, nothing announced and no error.
Begin ==
    [Client EXCEPT !.sent = <<>>, !.dispatched = <<>>, !.error = NoError,
                   !.returned = <<>>]

\* The state after a step: the record c, and the step's name and arguments.
Becomes(c, o) ==
    /\ connected' = c.connected
    /\ sessionCreated' = c.sessionCreated
    /\ sessionConfig' = c.sessionConfig
    /\ tools' = c.tools
    /\ inputAudioBuffer' = c.inputAudioBuffer
    /\ items' = c.items
    /\ queuedInputAudio' = c.queuedInputAudio
    /\ pending' = c.pending
    /\ sent' = c.sent
    /\ dispatched' = c.dispatched
    /\ error' = c.error
    /\ returned' = c.returned
    /\ waiting' = c.waiting
    /\ connecting' = c.connecting
    /\ advertised' =
          LET updates == SelectSeq(c.sent, LAMBDA cmd : cmd.type = "session.update")
          IN IF ~c.connected THEN <<>>
             ELSE IF updates = <<>> THEN advertised
             ELSE <<updates[Len(updates)].session.tools>>
    /\ op' = o

Failed(c) == c.error # NoError
Throw(c, e) == IF Failed(c) THEN c ELSE [c EXCEPT !.error = e]

\* ------------------------------------------------------------- sequences
RECURSIVE SeqsUpTo(_, _)
SeqsUpTo(S, n) ==
    IF n = 0 THEN {<<>>}
    ELSE LET shorter == SeqsUpTo(S, n - 1)
         IN shorter \cup {Append(q, x) : q \in shorter, x \in S}

Range(q) == {q[i] : i \in 1..Len(q)}
Min(S) == CHOOSE x \in S : \A y \in S : x <= y
Remove(q, i) == [j \in 1..(Len(q) - 1) |-> IF j < i THEN q[j] ELSE q[j + 1]]

\* --------------------------------------------------------------- session
\* The fields of SessionResourceType that the model keeps.  updateSession
\* assigns each of the eleven fields by a statement of the same shape;
\* turn_detection (read by getTurnDetectionType) and tools (recomputed by
\* updateSession) are kept together with two plain fields.  A turn_detection
\* object is represented by its type, and a tool definition by its name.
Fields == {"instructions", "voice", "turn_detection", "tools"}

defaultSessionConfig ==
    [instructions |-> "", voice |-> "alloy", turn_detection |-> Null,
     tools |-> <<>>]

FieldValues(f) ==
    CASE f = "instructions" -> {"", "be brief"}
      [] f = "voice" -> {"alloy", "echo"}
      [] f = "turn_detection" -> {Null, "server_vad"}
      [] f = "tools" -> SeqsUpTo(ToolNames \cup PrototypeNames, MaxInline)

\* An argument of updateSession: `given` are the fields it provides (those
\* whose value is not void 0) and val[f] is the value of a provided field f.
\* val[f] of a field that is not provided is never read; it is the default.
Partials ==
    {[given |-> g, val |-> v] :
        g \in SUBSET Fields,
        v \in [instructions : FieldValues("instructions"),
               voice : FieldValues("voice"),
               turn_detection : FieldValues("turn_detection"),
               tools : FieldValues("tools")]}

IsPartial(p) == \A f \in Fields \ p.given : p.val[f] = defaultSessionConfig[f]

NoPartial == [given |-> {}, val |-> defaultSessionConfig]

\* this.dispatch(eventName, event)
Dispatch(c, ev) ==
    IF Failed(c) THEN c ELSE [c EXCEPT !.dispatched = Append(@, ev)]

\* The event the client announces for a command that the transport sends
\* (source "client") and for an event that it delivers (source "server").
RealtimeEvent(source, type) ==
    [type |-> "realtime.event", source |-> source, event |-> type]

\* on client.*
onClientEvent(c, type) == Dispatch(c, RealtimeEvent("client", type))

\* on server.*
onServerEvent(c, type) == Dispatch(c, RealtimeEvent("server", type))

\* The announcements of a step other than the relayed realtime.event.
Announcements(q) == SelectSeq(q, LAMBDA e : e.type # "realtime.event")

\* ------------------------------------------------------------- transport
\* realtime.send(type, payload): throws when the transport is not connected;
\* publishes the command as client.<type> and client.*, and gives it to the
\* connection.
Send(c, cmd) ==
    IF Failed(c) THEN c
    ELSE IF ~c.connected THEN Throw(c, ErrNotConnected)
    ELSE onClientEvent([c EXCEPT !.sent = Append(@, cmd)], cmd.type)

\* realtime.receive(event): the event is published as server.<type>, whose
\* handlers have given c, and then as server.*; a handler that throws ends
\* the delivery.
Receive(c, type) == onServerEvent(c, type)

\* The same when the handler of server.<type> is an async function: what it
\* throws rejects its promise and the delivery goes on.
ReceiveAsync(c, type) ==
    [c EXCEPT !.dispatched = Append(@, RealtimeEvent("server", type))]

\* The positions and the number of the commands (or events) of type t in q.
TypeAt(q, t) == {i \in 1..Len(q) : q[i].type = t}
CountType(q, t) == Cardinality(TypeAt(q, t))
Types(q) == [i \in 1..Len(q) |-> q[i].type]

\* ---------------------------------------------------------- conversation
\* An item: id, type, role (Null unless a message), status, the types of its
\* content parts, and for a function call its name, call_id and the argument
\* text received so far (the deltas, in order).  The formatted view of a
\* function call holds the tool descriptor {type, name, call_id, arguments}.
defaultFrequency == 24000

ArgChunks == {"{\"a\":1", "}"}
\* JSON.parse(arguments) succeeds on the complete text {"a":1} only.
JSONparses(arguments) == arguments = <<"{\"a\":1", "}">>

CallId(id) == "call_" \o id

ItemPayloads ==
    {[id |-> id, type |-> "message", role |-> r, status |-> st,
      content |-> <<>>, name |-> Null, call_id |-> Null, arguments |-> <<>>] :
        id \in ItemIds, r \in {"user", "assistant"},
        st \in {"in_progress", "completed", "incomplete"}}
    \cup
    {[id |-> id, type |-> "function_call", role |-> Null, status |-> st,
      content |-> <<>>, name |-> n, call_id |-> CallId(id), arguments |-> <<>>] :
        id \in ItemIds, n \in ToolNames \cup PrototypeNames,
        st \in {"in_progress", "completed", "incomplete"}}

\* item.formatted.tool
HasFormattedTool(item) == item.type = "function_call"
FormattedTool(item) ==
    [type |-> "function", name |-> item.name, call_id |-> item.call_id,
     arguments |-> item.arguments]

ItemIndex(c, id) == {i \in 1..Len(c.items) : c.items[i].id = id}

\* conversation.getItem(id): <<>> when there is none
getItem(c, id) ==
    IF ItemIndex(c, id) = {} THEN <<>>
    ELSE <<c.items[CHOOSE i \in ItemIndex(c, id) : TRUE]>>

\* conversation.queueInputAudio(samples)
queueInputAudio(c, samples) ==
    [c EXCEPT !.queuedInputAudio = Append(@, samples)]

\* conversation.clear()
clear(c) == [c EXCEPT !.items = <<>>]

\* conversation.processEvent(event): the conversation after the event and the
\* item it yields (<<>> for none).
processEvent(c, ev) ==
    CASE ev.type = "conversation.item.created" ->
            \* a known item takes the fields of the event's item; a new item
            \* is inserted at the tail, and a new user message takes the
            \* oldest queued input audio
            IF ItemIndex(c, ev.item.id) # {}
            THEN LET i == CHOOSE i \in ItemIndex(c, ev.item.id) : TRUE
                 IN [c |-> [c EXCEPT !.items[i] = ev.item], item |-> <<ev.item>>]
            ELSE [c |-> [c EXCEPT
                           !.items = Append(@, ev.item),
                           !.queuedInputAudio =
                               IF ev.item.role = "user" /\ Len(@) > 0
                               THEN Tail(@) ELSE @],
                  item |-> <<ev.item>>]
      [] ev.type = "response.content_part.added" ->
            IF ItemIndex(c, ev.item_id) = {}
            THEN [c |-> c, item |-> <<>>]
            ELSE LET i == CHOOSE i \in ItemIndex(c, ev.item_id) : TRUE
                     new == [c.items[i] EXCEPT !.content = Append(@, ev.part)]
                 IN [c |-> [c EXCEPT !.items[i] = new], item |-> <<new>>]
      [] ev.type = "response.function_call_arguments.delta" ->
            IF ItemIndex(c, ev.item_id) = {}
            THEN [c |-> c, item |-> <<>>]
            ELSE LET i == CHOOSE i \in ItemIndex(c, ev.item_id) : TRUE
                     new == [c.items[i] EXCEPT !.arguments = Append(@, ev.delta)]
                 IN [c |-> [c EXCEPT !.items[i] = new], item |-> <<new>>]
      [] ev.type = "response.output_item.done" ->
            IF ItemIndex(c, ev.item_id) = {}
            THEN [c |-> c, item |-> <<>>]
            ELSE LET i == CHOOSE i \in ItemIndex(c, ev.item_id) : TRUE
                     new == [c.items[i] EXCEPT !.status = ev.status]
                 IN [c |-> [c EXCEPT !.items[i] = new], item |-> <<new>>]
      [] ev.type = "response.created" ->
            \* the response is registered; no item changes
            [c |-> c, item |-> <<>>]
      [] ev.type = "response.output_item.added" ->
            \* the item is inserted at the tail with status in_progress; a
            \* message that holds audio takes the oldest queued input audio
            IF ItemIndex(c, ev.item.id) # {}
            THEN [c |-> c, item |-> getItem(c, ev.item.id)]
            ELSE LET new == [ev.item EXCEPT !.status = "in_progress"]
                 IN [c |-> [c EXCEPT
                              !.items = Append(@, new),
                              !.queuedInputAudio =
                                  IF /\ new.type = "message"
                                     /\ new.role \in {"user", "assistant"}
                                     /\ "audio" \in Range(new.content)
                                     /\ Len(@) > 0
                                  THEN Tail(@) ELSE @],
                     item |-> <<new>>]
      [] ev.type \in {"response.audio_transcript.delta", "response.audio.delta",
                      "response.text.delta", "conversation.item.truncated",
                      "conversation.item.input_audio_transcription.completed"} ->
            \* the text, the transcript or the samples of a content part of
            \* the item change: none of the fields kept here; an item that is
            \* not in the conversation yields no item
            [c |-> c, item |-> getItem(c, ev.item_id)]
      [] ev.type = "input_audio_buffer.speech_stopped" ->
            \* the end of the speech is noted with the buffer supplied
            [c |-> c, item |-> <<>>]
      [] ev.type = "input_audio_buffer.speech_started" ->
            \* no item changes and no item is yielded
            [c |-> c, item |-> <<>>]
      [] ev.type = "conversation.item.deleted" ->
            \* the item leaves the collection and the lookup; deleting an
            \* item that is not there is an error
            IF ItemIndex(c, ev.item_id) = {}
            THEN [c |-> Throw(c, ErrItemNotFound), item |-> <<>>]
            ELSE LET i == CHOOSE i \in ItemIndex(c, ev.item_id) : TRUE
                 IN [c |-> [c EXCEPT !.items = Remove(@, i)],
                     item |-> <<c.items[i]>>]

\* ------------------------------------------------------ client: session
\* getTurnDetectionType(): sessionConfig.turn_detection?.type || null
getTurnDetectionType(c) == c.sessionConfig.turn_detection

\* Object.keys(this.tools)
ToolKeys(c) == [i \in 1..Len(c.tools) |-> c.tools[i].name]
\* Object.keys(this.tools) holds name
IsRegistered(c, name) == \E i \in 1..Len(c.tools) : c.tools[i].name = name

\* this.tools[name] is truthy: the tools are the properties of a plain
\* object, which inherits the properties of Object.prototype.
HasTool(c, name) == IsRegistered(c, name) \/ name \in PrototypeNames

\* Assignments that store each provided field and reset the others.
MergeConfigOntoDefaults(cfg, p) ==
    [f \in Fields |-> IF f \in p.given THEN p.val[f] ELSE defaultSessionConfig[f]]

\* The assignments of updateSession: each provided field is stored.
MergeConfig(cfg, p) ==
    [f \in Fields |-> IF f \in p.given THEN p.val[f] ELSE cfg[f]]

\* The tools passed inline, (tools || [])
InlineTools(p) == IF "tools" \in p.given THEN p.val.tools ELSE <<>>

\* The session of the session.update command: the stored configuration with
\* the inline tools followed by the registered ones as its tools.
SessionToSend(c, p) ==
    [c.sessionConfig EXCEPT !.tools = InlineTools(p) \o ToolKeys(c)]

\* updateSession(partial) that does not look for the inline tools in the
\* registry.
updateSessionUnchecked(c, p) ==
    IF Failed(c) THEN c
    ELSE LET merged == [c EXCEPT !.sessionConfig = MergeConfig(@, p)]
         IN IF merged.connected
            THEN Send(merged, [type |-> "session.update",
                               session |-> SessionToSend(merged, p)])
            ELSE merged

\* updateSession(partial)
updateSession(c, p) ==
    IF Failed(c) THEN c
    ELSE LET merged == [c EXCEPT !.sessionConfig = MergeConfig(@, p)]
         IN IF \E i \in 1..Len(InlineTools(p)) : HasTool(merged, InlineTools(p)[i])
            THEN Throw(merged, ErrToolAlreadyDefined)
            ELSE IF merged.connected
                 THEN Send(merged, [type |-> "session.update",
                                    session |-> SessionToSend(merged, p)])
                 ELSE merged

\* addTool that replaces a tool already registered under the name.
addToolReplacing(c, name, handler, callable) ==
    IF Failed(c) THEN c
    ELSE IF name = "" THEN Throw(c, ErrMissingToolName)
    ELSE IF ~callable THEN Throw(c, ErrHandlerNotFunction)
    ELSE updateSession(
            [c EXCEPT !.tools =
                Append(SelectSeq(@, LAMBDA t : t.name # name),
                       [name |-> name, handler |-> handler])],
            NoPartial)

\* addTool(definition, handler): name is definition?.name ("" when it is
\* missing or empty), callable says whether handler is a function.
addTool(c, name, handler, callable) ==
    IF Failed(c) THEN c
    ELSE IF name = "" THEN Throw(c, ErrMissingToolName)
    ELSE IF HasTool(c, name) THEN Throw(c, ErrToolAlreadyAdded)
    ELSE IF ~callable THEN Throw(c, ErrHandlerNotFunction)
    ELSE updateSession(
            [c EXCEPT !.tools = Append(@, [name |-> name, handler |-> handler])],
            NoPartial)

\* removeTool(name)
removeTool(c, name) ==
    IF Failed(c) THEN c
    ELSE IF ~HasTool(c, name) THEN Throw(c, ErrToolDoesNotExist)
    ELSE [c EXCEPT !.tools = SelectSeq(@, LAMBDA t : t.name # name)]

\* ------------------------------------------------- client: connection
\* connect(), up to the await of realtime.connect(): the call is refused
\* when the transport is connected at this moment.
connect(c) ==
    IF Failed(c) THEN c
    ELSE IF c.connected THEN Throw(c, ErrAlreadyConnected)
    ELSE [c EXCEPT !.connecting = @ + 1]

\* connect(), from the await on: realtime.connect() has rejected, or it has
\* resolved (ok) and the transport is connected.
connectSettled(c, ok) ==
    IF Failed(c) THEN c
    ELSE IF ~ok THEN Throw([c EXCEPT !.connecting = @ - 1], ErrConnectFailed)
    ELSE updateSession([c EXCEPT !.connecting = @ - 1, !.connected = TRUE],
                       NoPartial)

\* waitForSessionCreated() without the check of the connection.
waitForSessionCreatedUnchecked(c) ==
    IF Failed(c) THEN c
    ELSE IF ~c.sessionCreated THEN [c EXCEPT !.waiting = @ + 1]
    ELSE c

\* waitForSessionCreated(), to its first test of the flag: the caller
\* returns, or waits for the timer in the polling loop.
waitForSessionCreated(c) ==
    IF Failed(c) THEN c
    ELSE IF ~c.connected THEN Throw(c, ErrNotConnectedUseConnect)
    ELSE IF ~c.sessionCreated THEN [c EXCEPT !.waiting = @ + 1]
    ELSE c

\* The timer of a waiting caller fires and the loop tests the flag again.
waitForSessionCreatedPoll(c) ==
    IF Failed(c) THEN c
    ELSE IF ~c.sessionCreated THEN c
    ELSE [c EXCEPT !.waiting = @ - 1]

\* on server.session.created
onSessionCreated(c) ==
    IF Failed(c) THEN c
    ELSE [c EXCEPT !.sessionCreated = TRUE]

\* disconnect()
disconnect(c) ==
    IF Failed(c) THEN c
    ELSE clear([c EXCEPT !.sessionCreated = FALSE, !.connected = FALSE])

\* _resetConfig()
resetConfig(c) ==
    IF Failed(c) THEN c
    ELSE [c EXCEPT !.sessionCreated = FALSE, !.tools = <<>>,
                   !.sessionConfig = defaultSessionConfig,
                   !.inputAudioBuffer = <<>>]

\* reset()
reset(c) == resetConfig(disconnect(c))

\* ------------------------------------------------------ client: audio
\* appendInputAudio(arrayBuffer)
\* appendInputAudio that keeps only the buffer appended last.
appendInputAudioReplacing(c, samples) ==
    IF Failed(c) THEN c
    ELSE IF Len(samples) > 0
    THEN LET s1 == Send(c, [type |-> "input_audio_buffer.append",
                            audio |-> samples])
         IN IF Failed(s1) THEN s1
            ELSE [s1 EXCEPT !.inputAudioBuffer = samples]
    ELSE c

\* appendInputAudio(arrayBuffer)
appendInputAudio(c, samples) ==
    IF Failed(c) THEN c
    ELSE IF Len(samples) > 0
    THEN LET s1 == Send(c, [type |-> "input_audio_buffer.append",
                            audio |-> samples])
         IN IF Failed(s1) THEN s1
            ELSE [s1 EXCEPT !.inputAudioBuffer = @ \o samples]
    ELSE c

\* createResponse() that commits whatever the turn detection mode is.
createResponseAlwaysCommitting(c) ==
    IF Failed(c) THEN c
    ELSE LET committed ==
               IF Len(c.inputAudioBuffer) > 0
               THEN LET s1 == Send(c, [type |-> "input_audio_buffer.commit"])
                    IN IF Failed(s1) THEN s1
                       ELSE [queueInputAudio(s1, c.inputAudioBuffer)
                                EXCEPT !.inputAudioBuffer = <<>>]
               ELSE c
         IN Send(committed, [type |-> "response.create"])

\* createResponse()
createResponse(c) ==
    IF Failed(c) THEN c
    ELSE LET committed ==
               IF getTurnDetectionType(c) = Null /\ Len(c.inputAudioBuffer) > 0
               THEN LET s1 == Send(c, [type |-> "input_audio_buffer.commit"])
                    IN IF Failed(s1) THEN s1
                       ELSE [queueInputAudio(s1, c.inputAudioBuffer)
                                EXCEPT !.inputAudioBuffer = <<>>]
               ELSE c
         IN Send(committed, [type |-> "response.create"])

\* The parts of a user message: text, or audio held as raw binary samples or
\* as a base64 string.
ContentParts ==
    {[type |-> "input_text", audio |-> Null],
     [type |-> "input_audio", audio |-> "binary"],
     [type |-> "input_audio", audio |-> "base64"]}

\* The loop of sendUserMessageContent over the parts: raw binary audio is
\* replaced by its base64 encoding.
EncodeContent(content) ==
    [i \in 1..Len(content) |->
        IF content[i].type = "input_audio" /\ content[i].audio = "binary"
        THEN [content[i] EXCEPT !.audio = "base64"]
        ELSE content[i]]

\* sendUserMessageContent that creates the item whatever the content.
sendUserMessageContentAlwaysCreating(c, content) ==
    IF Failed(c) THEN c
    ELSE createResponse(Send(c, [type |-> "conversation.item.create",
                                 item |-> [type |-> "message", role |-> "user",
                                           content |-> EncodeContent(content)]]))

\* sendUserMessageContent(content)
sendUserMessageContent(c, content) ==
    IF Failed(c) THEN c
    ELSE LET created ==
               IF Len(content) > 0
               THEN Send(c, [type |-> "conversation.item.create",
                             item |-> [type |-> "message", role |-> "user",
                                       content |-> EncodeContent(content)]])
               ELSE c
         IN createResponse(created)

\* item.content.findIndex((c) => c.type === 'audio'), for the last audio part
AudioIndexOfLast(item) ==
    LET audio == {i \in 1..Len(item.content) : item.content[i] = "audio"}
    IN IF audio = {} THEN -1 ELSE (CHOOSE i \in audio : \A j \in audio : j <= i) - 1

\* item.content.findIndex((c) => c.type === 'audio')
AudioIndex(item) ==
    LET audio == {i \in 1..Len(item.content) : item.content[i] = "audio"}
    IN IF audio = {} THEN -1 ELSE Min(audio) - 1

\* The checks of cancelResponse without the check of the role.
CancelPreconditionOfAnyRole(found) ==
    IF found = <<>> THEN ErrItemNotFound
    ELSE IF found[1].type # "message" THEN ErrNotMessage
    ELSE NoError

\* The checks cancelResponse makes of the item before it sends anything.
CancelPrecondition(found) ==
    IF found = <<>> THEN ErrItemNotFound
    ELSE IF found[1].type # "message" THEN ErrNotMessage
    ELSE IF found[1].role # "assistant" THEN ErrNotAssistant
    ELSE NoError

\* The whole numbers n up to 4000 for which the double nearest to n / 1000,
\* multiplied by 1000 and rounded to a double again, lies just below n.
RoundsBelow ==
    {1001 + 2 * k : k \in 0..11} \cup {2002 + 4 * k : k \in 0..11}

\* Math.floor((sampleCount / defaultFrequency) * 1000), computed in doubles,
\* for a sampleCount up to 96000: the floor of the exact quotient, or one
\* less where the quotient is a whole number that the doubles round below.
AudioEndMs(sampleCount) ==
    LET ms == (sampleCount * 1000) \div defaultFrequency
    IN IF (sampleCount * 1000) % defaultFrequency = 0 /\ ms \in RoundsBelow
       THEN ms - 1
       ELSE ms

\* cancelResponse(id, sampleCount): id is "" when none is given.
cancelResponse(c, id, sampleCount) ==
    IF Failed(c) THEN c
    ELSE IF id = ""
    THEN [Send(c, [type |-> "response.cancel"]) EXCEPT !.returned = <<>>]
    ELSE LET found == getItem(c, id)
         IN IF CancelPrecondition(found) # NoError
            THEN Throw(c, CancelPrecondition(found))
            ELSE LET s1 == Send(c, [type |-> "response.cancel"])
                     audioIndex == AudioIndex(found[1])
                 IN IF Failed(s1) THEN s1
                    ELSE IF audioIndex = -1 THEN Throw(s1, ErrNoAudio)
                    ELSE LET s2 == Send(s1,
                                [type |-> "conversation.item.truncate",
                                 item_id |-> id,
                                 content_index |-> audioIndex,
                                 audio_end_ms |-> AudioEndMs(sampleCount)])
                         IN IF Failed(s2) THEN s2
                            ELSE [s2 EXCEPT !.returned = found]

\* deleteItem(id)
deleteItem(c, id) ==
    IF Failed(c) THEN c
    ELSE Send(c, [type |-> "conversation.item.delete", item_id |-> id])

\* ------------------------------------------------------ client: tools
FunctionCallOutput(call_id, isError, output) ==
    [type |-> "conversation.item.create", item_type |-> "function_call_output",
     call_id |-> call_id, isError |-> isError, output |-> output]

\* callTool, from the end of its try block: c is the client after the try
\* block, failed with the value thrown when the block threw.  The catch block
\* reads e.message, which is itself a fault when e is undefined or null.
callToolEnd(c, call_id) ==
    LET caught == [c EXCEPT !.error = NoError]
        handled ==
            IF ~Failed(c) THEN c
            ELSE IF c.error = Undefined THEN Throw(caught, ErrTypeError)
            ELSE Send(caught, FunctionCallOutput(call_id, TRUE, c.error))
    IN createResponse(handled)

\* callTool that does not wait for the handler's promise to settle.
callToolWithoutAwait(c, tool) ==
    IF Failed(c) THEN c
    ELSE IF ~JSONparses(tool.arguments)
    THEN callToolEnd(Throw(c, ErrJSONParse), tool.call_id)
    ELSE IF ~HasTool(c, tool.name)
    THEN callToolEnd(Throw(c, ErrToolNotAdded), tool.call_id)
    ELSE IF ~IsRegistered(c, tool.name)
    THEN callToolEnd(Throw(c, ErrHandlerIsNotFunction), tool.call_id)
    ELSE LET h == c.tools[CHOOSE i \in 1..Len(c.tools) :
                              c.tools[i].name = tool.name].handler
         IN callToolEnd(
                CASE h = "resolves" ->
                        Send(c, FunctionCallOutput(tool.call_id, FALSE, "result"))
                  [] h \in {"rejects", "throws"} -> Throw(c, ErrHandlerFailed)
                  [] h = "rejectsNullish" -> Throw(c, Undefined),
                tool.call_id)

\* callTool(tool), up to the await of the handler's result: the arguments
\* are parsed, the handler is looked up and called.
callTool(c, tool) ==
    IF Failed(c) THEN c
    ELSE IF ~JSONparses(tool.arguments)
    THEN callToolEnd(Throw(c, ErrJSONParse), tool.call_id)
    ELSE IF ~HasTool(c, tool.name)
    THEN callToolEnd(Throw(c, ErrToolNotAdded), tool.call_id)
    ELSE IF ~IsRegistered(c, tool.name)
    THEN callToolEnd(Throw(c, ErrHandlerIsNotFunction), tool.call_id)
    ELSE LET h == c.tools[CHOOSE i \in 1..Len(c.tools) :
                              c.tools[i].name = tool.name].handler
         IN IF h = "throws"
            THEN callToolEnd(Throw(c, ErrHandlerFailed), tool.call_id)
            ELSE [c EXCEPT !.pending =
                    Append(@, [call_id |-> tool.call_id, handler |-> h])]

\* callTool, from the await on: the handler's promise has settled.
callToolSettled(c, p) ==
    IF Failed(c) THEN c
    ELSE callToolEnd(
            CASE p.handler = "resolves" ->
                    Send(c, FunctionCallOutput(p.call_id, FALSE, "result"))
              [] p.handler = "rejects" -> Throw(c, ErrHandlerFailed)
              [] p.handler = "rejectsNullish" -> Throw(c, Undefined),
            p.call_id)

\* --------------------------------------------- client: server events
Announce(type, item) == [type |-> type, item |-> item.id, status |-> item.status]

\* handlerWithDispatch(event)
handlerWithDispatch(c, ev) ==
    LET r == processEvent(c, ev)
    IN [c |-> IF r.item # <<>>
              THEN Dispatch(r.c, Announce("conversation.updated", r.item[1]))
              ELSE r.c,
        item |-> r.item]

\* The handler of input_audio_buffer.speech_started cancelling the response.
onSpeechStartedCancelling(c, ev) ==
    Dispatch(Send(processEvent(c, ev).c, [type |-> "response.cancel"]),
             [type |-> "conversation.interrupted", item |-> Null, status |-> Null])

\* on server.input_audio_buffer.speech_started
onSpeechStarted(c, ev) ==
    Dispatch(processEvent(c, ev).c,
             [type |-> "conversation.interrupted", item |-> Null, status |-> Null])

\* The handler of conversation.item.created announcing the completion of
\* every item.
onItemCreatedAlwaysCompleted(c, ev) ==
    LET r == handlerWithDispatch(c, ev)
    IN IF r.item = <<>>
       THEN Throw(Dispatch(r.c, [type |-> "conversation.item.appended",
                                 item |-> Null, status |-> Null]),
                  ErrTypeError)
       ELSE Dispatch(Dispatch(r.c, Announce("conversation.item.appended", r.item[1])),
                     Announce("conversation.item.completed", r.item[1]))

\* on server.conversation.item.created
onItemCreated(c, ev) ==
    LET r == handlerWithDispatch(c, ev)
    IN IF r.item = <<>>
       THEN Throw(Dispatch(r.c, [type |-> "conversation.item.appended",
                                 item |-> Null, status |-> Null]),
                  ErrTypeError)
       ELSE LET s1 == Dispatch(r.c, Announce("conversation.item.appended", r.item[1]))
            IN IF r.item[1].status = "completed"
               THEN Dispatch(s1, Announce("conversation.item.completed", r.item[1]))
               ELSE s1

\* on server.response.output_item.done
onOutputItemDone(c, ev) ==
    LET r == handlerWithDispatch(c, ev)
    IN IF r.item = <<>> THEN Throw(r.c, ErrTypeError)
       ELSE LET s1 == IF r.item[1].status = "completed"
                      THEN Dispatch(r.c, Announce("conversation.item.completed",
                                                  r.item[1]))
                      ELSE r.c
            IN IF HasFormattedTool(r.item[1])
               THEN callTool(s1, FormattedTool(r.item[1]))
               ELSE s1

\* ----------------------------------------------------------------- steps
Init ==
    /\ connected = FALSE
    /\ sessionCreated = FALSE
    /\ sessionConfig = defaultSessionConfig
    /\ tools = <<>>
    /\ inputAudioBuffer = <<>>
    /\ items = <<>>
    /\ queuedInputAudio = <<>>
    /\ pending = <<>>
    /\ sent = <<>>
    /\ dispatched = <<>>
    /\ error = NoError
    /\ returned = <<>>
    /\ waiting = 0
    /\ connecting = 0
    /\ advertised = <<>>
    /\ op = [name |-> "constructor"]

\* connect() is called while fewer than limit calls await the transport.
ConnectWith(limit) ==
    LET after == connect(Begin)
    IN /\ connecting < limit
       /\ Becomes(after, [name |-> "connect"])

Connect == ConnectWith(MaxConnecting)

\* A caller that awaits each connect() before it calls connect() again.
ConnectAwaited == ConnectWith(1)

\* The transport settles the realtime.connect() of a connect() call.
ConnectSettled ==
    \E ok \in BOOLEAN :
        /\ connecting > 0
        /\ Becomes(connectSettled(Begin, ok),
                   [name |-> "realtime.connect", ok |-> ok])

Disconnect ==
    /\ Becomes(disconnect(Begin), [name |-> "disconnect"])

Reset ==
    /\ Becomes(reset(Begin), [name |-> "reset"])

WaitForSessionCreated ==
    LET after == waitForSessionCreated(Begin)
    IN /\ after.waiting <= MaxWaiting
       /\ Becomes(after, [name |-> "waitForSessionCreated"])

PollSessionCreated ==
    /\ waiting > 0
    /\ Becomes(waitForSessionCreatedPoll(Begin), [name |-> "setTimeout"])

SessionCreated ==
    /\ connected
    /\ Becomes(Receive(onSessionCreated(Begin), "session.created"),
               [name |-> "session.created"])

UpdateSessionWith(partials) ==
    \E p \in partials :
        /\ IsPartial(p)
        /\ Becomes(updateSession(Begin, p), [name |-> "updateSession", partial |-> p])

UpdateSession == UpdateSessionWith(Partials)

\* updateSession({turn_detection})
SetTurnDetection == UpdateSessionWith({p \in Partials : p.given = {"turn_detection"}})

HandlerKinds == {"resolves", "rejects", "rejectsNullish", "throws"}

AddToolWith(names, handlers) ==
    \E name \in names, handler \in handlers, callable \in BOOLEAN :
        /\ Becomes(addTool(Begin, name, handler, callable),
                   [name |-> "addTool", tool |-> name, handler |-> handler,
                    callable |-> callable])

AddTool == AddToolWith(ToolNames \cup PrototypeNames \cup {""}, HandlerKinds)

RemoveToolWith(names) ==
    \E name \in names :
        /\ Becomes(removeTool(Begin, name), [name |-> "removeTool", tool |-> name])

RemoveTool == RemoveToolWith(ToolNames \cup PrototypeNames)

AppendInputAudio ==
    \E samples \in SeqsUpTo(Samples, MaxAudio) :
        /\ Len(inputAudioBuffer) + Len(samples) <= MaxAudio
        /\ Becomes(appendInputAudio(Begin, samples),
                   [name |-> "appendInputAudio", samples |-> samples])

CreateResponse ==
    LET after == createResponse(Begin)
    IN /\ Len(after.queuedInputAudio) <= MaxQueue
       /\ Becomes(after, [name |-> "createResponse"])

SendUserMessageContent ==
    \E content \in SeqsUpTo(ContentParts, MaxContent) :
        LET after == sendUserMessageContent(Begin, content)
        IN /\ Len(after.queuedInputAudio) <= MaxQueue
           /\ Becomes(after, [name |-> "sendUserMessageContent",
                              content |-> content])

\* The sample counts cancelResponse is called with: the first steps from 0,
\* and one second of audio and one millisecond more.
SampleCounts == {k * SampleStep : k \in 0..MaxSteps} \cup {24024}

CancelResponse ==
    \E id \in ItemIds \cup {""}, sampleCount \in SampleCounts :
        /\ Becomes(cancelResponse(Begin, id, sampleCount),
                   [name |-> "cancelResponse", id |-> id,
                    sampleCount |-> sampleCount])

DeleteItem ==
    \E id \in ItemIds :
        /\ Becomes(deleteItem(Begin, id), [name |-> "deleteItem", id |-> id])

\* Server events reach the client while the transport is connected.
\* The server gives every item it creates an id of its own.
ItemCreatedWith(payloads) ==
    \E item \in payloads :
        /\ connected
        /\ ItemIndex(Client, item.id) = {}
        /\ Becomes(Receive(onItemCreated(Begin, [type |-> "conversation.item.created",
                                                 item |-> item]),
                           "conversation.item.created"),
                   [name |-> "conversation.item.created", id |-> item.id])

ItemCreated == ItemCreatedWith(ItemPayloads)

ContentPartAdded ==
    \E id \in ItemIds, part \in {"text", "audio"} :
        /\ connected
        /\ \A i \in ItemIndex(Client, id) :
              /\ items[i].type = "message"
              /\ Len(items[i].content) < MaxParts
        /\ Becomes(Receive(processEvent(Begin,
                                [type |-> "response.content_part.added",
                                 item_id |-> id, part |-> part]).c,
                           "response.content_part.added"),
                   [name |-> "response.content_part.added", id |-> id])

FunctionCallArgumentsDeltaWith(ids) ==
    \E id \in ids, delta \in ArgChunks :
        /\ connected
        /\ \A i \in ItemIndex(Client, id) :
              /\ items[i].type = "function_call"
              /\ Len(items[i].arguments) < MaxArgChunks
        /\ Becomes(Receive(handlerWithDispatch(Begin,
                                [type |-> "response.function_call_arguments.delta",
                                 item_id |-> id, delta |-> delta]).c,
                           "response.function_call_arguments.delta"),
                   [name |-> "response.function_call_arguments.delta", id |-> id])

FunctionCallArgumentsDelta == FunctionCallArgumentsDeltaWith(ItemIds)

SpeechStarted ==
    /\ connected
    /\ Becomes(Receive(onSpeechStarted(Begin,
                            [type |-> "input_audio_buffer.speech_started"]),
                       "input_audio_buffer.speech_started"),
               [name |-> "input_audio_buffer.speech_started"])

ResponseCreated ==
    /\ connected
    /\ Becomes(Receive(processEvent(Begin, [type |-> "response.created"]).c,
                       "response.created"),
               [name |-> "response.created"])

OutputItemAdded ==
    \E item \in ItemPayloads :
        /\ connected
        /\ ItemIndex(Client, item.id) = {}
        /\ Becomes(Receive(processEvent(Begin,
                                [type |-> "response.output_item.added",
                                 item |-> item]).c,
                           "response.output_item.added"),
                   [name |-> "response.output_item.added", id |-> item.id])

\* A delta of text, of a transcript or of samples for an item that the
\* conversation holds.
ContentDelta ==
    \E id \in ItemIds,
       type \in {"response.audio_transcript.delta", "response.audio.delta",
                 "response.text.delta"} :
        /\ connected
        /\ ItemIndex(Client, id) # {}
        /\ Becomes(Receive(handlerWithDispatch(Begin, [type |-> type,
                                                       item_id |-> id]).c,
                           type),
                   [name |-> type, id |-> id])

\* The server has truncated the audio of an item as cancelResponse asked.
ItemTruncated ==
    \E id \in ItemIds :
        /\ connected
        /\ ItemIndex(Client, id) # {}
        /\ Becomes(Receive(handlerWithDispatch(Begin,
                                [type |-> "conversation.item.truncated",
                                 item_id |-> id]).c,
                           "conversation.item.truncated"),
                   [name |-> "conversation.item.truncated", id |-> id])

\* The transcription of the input audio of an item is completed: of an item
\* that the conversation holds, or of one that the server has not created yet.
InputAudioTranscriptionCompleted ==
    \E id \in ItemIds :
        /\ connected
        /\ Becomes(Receive(handlerWithDispatch(Begin,
                                [type |-> "conversation.item.input_audio_transcription.completed",
                                 item_id |-> id]).c,
                           "conversation.item.input_audio_transcription.completed"),
                   [name |-> "conversation.item.input_audio_transcription.completed",
                    id |-> id])

SpeechStopped ==
    /\ connected
    /\ Becomes(Receive(processEvent(Begin,
                            [type |-> "input_audio_buffer.speech_stopped"]).c,
                       "input_audio_buffer.speech_stopped"),
               [name |-> "input_audio_buffer.speech_stopped"])

\* Server events that no handler of the client is registered for.
OtherServerEvents == {"response.done", "error"}

OtherServerEvent ==
    \E type \in OtherServerEvents :
        /\ connected
        /\ Becomes(Receive(Begin, type), [name |-> type])

\* The server deletes an item that it holds.
ItemDeleted ==
    \E id \in ItemIds :
        /\ connected
        /\ ItemIndex(Client, id) # {}
        /\ Becomes(Receive(handlerWithDispatch(Begin,
                                [type |-> "conversation.item.deleted",
                                 item_id |-> id]).c,
                           "conversation.item.deleted"),
                   [name |-> "conversation.item.deleted", id |-> id])

OutputItemDoneWith(ids) ==
    \E id \in ids, st \in {"completed", "incomplete"} :
        LET after == ReceiveAsync(
                         onOutputItemDone(Begin, [type |-> "response.output_item.done",
                                                  item_id |-> id, status |-> st]),
                         "response.output_item.done")
        IN /\ connected
           /\ Len(after.pending) <= MaxPending
           /\ Len(after.queuedInputAudio) <= MaxQueue
           /\ Becomes(after, [name |-> "response.output_item.done", id |-> id,
                              status |-> st])

\* The promise of a pending tool handler settles.
ToolSettled ==
    \E i \in 1..Len(pending) :
        LET after == callToolSettled([Begin EXCEPT !.pending = Remove(@, i)],
                                     pending[i])
        IN /\ Len(after.queuedInputAudio) <= MaxQueue
           /\ Becomes(after, [name |-> "callTool", call_id |-> pending[i].call_id,
                              handler |-> pending[i].handler])

OutputItemDone == OutputItemDoneWith(ItemIds)

Next ==
    \/ Connect \/ ConnectSettled \/ Disconnect \/ Reset
    \/ UpdateSession \/ AddTool \/ RemoveTool
    \/ AppendInputAudio \/ CreateResponse \/ SendUserMessageContent
    \/ CancelResponse \/ DeleteItem
    \/ WaitForSessionCreated \/ PollSessionCreated \/ SessionCreated
    \/ ResponseCreated \/ OutputItemAdded \/ ContentDelta \/ ItemTruncated
    \/ InputAudioTranscriptionCompleted \/ SpeechStopped \/ OtherServerEvent
    \/ ItemCreated \/ ItemDeleted \/ SpeechStarted \/ ContentPartAdded \/ FunctionCallArgumentsDelta
    \/ OutputItemDone \/ ToolSettled

Spec == Init /\ [][Next]_vars

\* ------------------------------------------------- the specifications
\* Audio: the input audio buffer, its commit and the connection.
UserMessageCreated ==
    ItemCreatedWith({i \in ItemPayloads : i.role = "user" /\ i.status = "completed"})

NextAudio ==
    \/ ConnectAwaited \/ ConnectSettled \/ Disconnect \/ Reset
    \/ SetTurnDetection
    \/ AppendInputAudio \/ CreateResponse
    \/ UserMessageCreated \/ SpeechStarted

SpecAudio == Init /\ [][NextAudio]_vars

\* Session: the session configuration and the tool registry.
AddResolvingTool ==
    AddToolWith(ToolNames \cup PrototypeNames \cup {""}, {"resolves"})

NextSession ==
    \/ ConnectAwaited \/ ConnectSettled \/ Disconnect \/ Reset
    \/ UpdateSession \/ AddResolvingTool \/ RemoveTool

SpecSession == Init /\ [][NextSession]_vars

\* Config: the session configuration, with one tool to register.
AddOneTool == AddToolWith({"t1"}, {"resolves"})

NextConfig ==
    \/ ConnectAwaited \/ ConnectSettled \/ Disconnect \/ Reset
    \/ UpdateSession \/ AddOneTool

SpecConfig == Init /\ [][NextConfig]_vars

\* Cancel: cancelResponse on the items of the conversation.
ItemInProgressCreated ==
    ItemCreatedWith({i \in ItemPayloads : i.status = "in_progress"
                                          /\ i.name \in {Null, "t1"}})

NextCancel ==
    \/ ConnectAwaited \/ ConnectSettled \/ Disconnect
    \/ ItemInProgressCreated \/ ContentPartAdded
    \/ CancelResponse

SpecCancel == Init /\ [][NextCancel]_vars

\* Messages: the user messages the client sends, with the audio it buffers.
NextMessage ==
    \/ ConnectAwaited \/ ConnectSettled
    \/ SetTurnDetection
    \/ AppendInputAudio \/ SendUserMessageContent

SpecMessage == Init /\ [][NextMessage]_vars

\* Registry: the tools added and removed, and what the server is told.
NextRegistry ==
    \/ ConnectAwaited \/ ConnectSettled \/ Disconnect
    \/ AddTool \/ RemoveTool

SpecRegistry == Init /\ [][NextRegistry]_vars

\* Items: deleteItem on the items of the conversation.
NextItems ==
    \/ ConnectAwaited \/ ConnectSettled \/ Disconnect
    \/ ItemInProgressCreated \/ ContentPartAdded \/ ItemDeleted
    \/ DeleteItem

SpecItems == Init /\ [][NextItems]_vars

\* Tools: function calls of the server and the handlers they invoke.
AddFirstTool == AddToolWith({"t1"}, HandlerKinds)
RemoveFirstTool == RemoveToolWith({"t1"})
FirstItemCreated ==
    ItemCreatedWith({i \in ItemPayloads : i.status = "in_progress" /\ i.id = "i1"
                                          /\ i.role # "user"})

NextTools ==
    \/ ConnectAwaited \/ ConnectSettled \/ Disconnect
    \/ AddFirstTool \/ RemoveFirstTool
    \/ FirstItemCreated \/ FunctionCallArgumentsDeltaWith({"i1"})
    \/ OutputItemDoneWith({"i1"}) \/ ToolSettled

SpecTools == Init /\ [][NextTools]_vars

\* Events: the announcements the client makes for the events of the server.
NextEvents ==
    \/ ConnectAwaited \/ ConnectSettled \/ Disconnect
    \/ ItemCreated \/ ItemDeleted
    \/ OutputItemAdded \/ ContentDelta \/ ItemTruncated
    \/ InputAudioTranscriptionCompleted \/ OtherServerEvent
    \/ OutputItemDone

SpecEvents == Init /\ [][NextEvents]_vars

\* Pending: tool handlers that have not settled while events arrive.
AddSettlingTool == AddToolWith({"t1"}, {"resolves", "rejects"})
FunctionCallCreated ==
    ItemCreatedWith({i \in ItemPayloads : i.status = "in_progress" /\ i.name = "t1"})

NextPending ==
    \/ ConnectAwaited \/ ConnectSettled
    \/ AddSettlingTool
    \/ FunctionCallCreated \/ FunctionCallArgumentsDelta
    \/ OutputItemDone \/ ToolSettled

SpecPending == Init /\ [][NextPending]_vars

\* Session: the session.created event and the callers that wait for it.
NextWait ==
    \/ Connect \/ ConnectSettled \/ Disconnect \/ Reset
    \/ SetTurnDetection \/ AddFirstTool
    \/ WaitForSessionCreated \/ PollSessionCreated \/ SessionCreated

SpecWait == Init /\ [][NextWait]_vars

\* The timer of the polling loop fires as long as a caller waits.
SpecWaitFair == SpecWait /\ WF_vars(PollSessionCreated)

\* ----------------------------------------------------------------- claims
\* A command can be sent only on a connected transport (Send): the claims
\* about what a call sends are about calls made while it is connected.

\* C1: createResponse() called while connected: with no turn detection mode
\* and a non-empty input audio buffer it sends exactly one
\* input_audio_buffer.commit and then response.create, hands the buffered
\* samples to the conversation's queued input audio and leaves the buffer
\* empty; with turn detection active or an empty buffer it sends no commit
\* and leaves the buffer and the queue as they were.  In both cases exactly
\* one response.create is sent, last, and the call does not fail.
C1_CreateResponseCommits ==
    [][(op'.name = "createResponse" /\ connected) =>
        /\ error' = NoError
        /\ CountType(sent', "response.create") = 1
        /\ sent'[Len(sent')].type = "response.create"
        /\ IF sessionConfig.turn_detection = Null /\ Len(inputAudioBuffer) > 0
           THEN /\ Types(sent') = <<"input_audio_buffer.commit", "response.create">>
                /\ queuedInputAudio' = Append(queuedInputAudio, inputAudioBuffer)
                /\ inputAudioBuffer' = <<>>
           ELSE /\ Types(sent') = <<"response.create">>
                /\ inputAudioBuffer' = inputAudioBuffer
                /\ queuedInputAudio' = queuedInputAudio]_vars

\* createResponse() has committed a non-empty buffer.
C1_Witness ==
    /\ op.name = "createResponse"
    /\ Types(sent) = <<"input_audio_buffer.commit", "response.create">>
    /\ inputAudioBuffer = <<>>
    /\ queuedInputAudio # <<>>
    /\ sessionConfig.turn_detection = Null

\* C7: after a commit, after reset() and after disconnect() the input audio
\* buffer holds no samples.
C7_BufferEmptyAfterCommitResetDisconnect ==
    (\/ op.name \in {"disconnect", "reset"}
     \/ CountType(sent, "input_audio_buffer.commit") > 0)
        => inputAudioBuffer = <<>>

\* C5: addTool with a registered name fails with the duplicate-tool error
\* and leaves the registry unchanged; addTool with a missing or empty name
\* or a handler that is no function fails, registers nothing and sends no
\* session.update; removeTool of an unregistered name fails, and of a
\* registered name succeeds and unregisters it; addTool of a name that is
\* not registered, as after its removeTool, succeeds and registers it.
C5_ToolRegistry ==
    [][/\ (op'.name = "addTool" /\ op'.tool \in Range(ToolKeys(Client))) =>
            /\ error' = ErrToolAlreadyAdded
            /\ tools' = tools
       /\ (op'.name = "addTool" /\ (op'.tool = "" \/ ~op'.callable)) =>
            /\ error' # NoError
            /\ tools' = tools
            /\ sent' = <<>>
       /\ (op'.name = "removeTool" /\ op'.tool \notin Range(ToolKeys(Client))) =>
            /\ error' = ErrToolDoesNotExist
            /\ tools' = tools
       /\ (op'.name = "removeTool" /\ op'.tool \in Range(ToolKeys(Client))) =>
            /\ error' = NoError
            /\ op'.tool \notin Range(ToolKeys(Client'))
       /\ (/\ op'.name = "addTool" /\ op'.tool # "" /\ op'.callable
           /\ \/ op'.tool \notin Range(ToolKeys(Client))
              \/ op.name = "removeTool" /\ error = NoError /\ op.tool = op'.tool) =>
            /\ error' = NoError
            /\ tools' = Append(tools, [name |-> op'.tool, handler |-> op'.handler])
      ]_vars

\* addTool has been refused for a name that is registered.
C5_Witness ==
    /\ op.name = "addTool"
    /\ error = ErrToolAlreadyAdded
    /\ op.callable
    /\ \E i \in 1..Len(tools) : tools[i].name = op.tool

\* C6: the configuration given to updateSession while the transport is not
\* connected, the inline tools included, is carried by the session.update
\* that the next successful connect() sends.
C6_DeferredConfigurationIsSent ==
    [][(/\ op.name = "updateSession" /\ error = NoError /\ ~connected
        /\ op'.name = "realtime.connect" /\ op'.ok) =>
            /\ Types(sent') = <<"session.update">>
            /\ \A f \in op.partial.given \ {"tools"} :
                  sent'[1].session[f] = op.partial.val[f]
            /\ "tools" \in op.partial.given =>
                  Range(op.partial.val.tools) \subseteq Range(sent'[1].session.tools)
      ]_vars

\* C9: updateSession(partial) stores every field that partial provides, null
\* included, and leaves every other field of the session configuration as it
\* was before the call.
C9_UpdateSessionMergesProvidedFields ==
    [][op'.name = "updateSession" =>
        \A f \in Fields :
            IF f \in op'.partial.given
            THEN sessionConfig'[f] = op'.partial.val[f]
            ELSE sessionConfig'[f] = sessionConfig[f]]_vars

\* updateSession has stored a null and kept a field, not the default, that
\* it was not given.
C9_Witness ==
    /\ op.name = "updateSession"
    /\ op.partial.given = {"turn_detection"}
    /\ op.partial.val.turn_detection = Null
    /\ sessionConfig.turn_detection = Null
    /\ sessionConfig.voice = "echo"
    /\ sessionConfig.instructions = "be brief"

\* C10: updateSession with an inline tool whose name is registered fails with
\* the duplicate-tool error and sends nothing; otherwise it does not fail,
\* and the session.update it sends (exactly one, when connected) has as tools
\* the inline tools of the call together with the registered tools.
C10_UpdateSessionTools ==
    [][op'.name = "updateSession" =>
        LET inline == IF "tools" \in op'.partial.given
                      THEN Range(op'.partial.val.tools) ELSE {}
            registered == {tools[i].name : i \in 1..Len(tools)}
        IN IF inline \cap registered # {}
           THEN /\ error' = ErrToolAlreadyDefined
                /\ sent' = <<>>
           ELSE /\ error' = NoError
                /\ tools' = tools
                /\ IF connected
                   THEN /\ Types(sent') = <<"session.update">>
                        /\ Range(sent'[1].session.tools) = inline \cup registered
                        /\ Len(sent'[1].session.tools) =
                              Len(InlineTools(op'.partial)) + Len(tools)
                   ELSE sent' = <<>>]_vars

\* updateSession has sent an inline tool together with a registered tool.
C10_Witness ==
    /\ op.name = "updateSession"
    /\ error = NoError
    /\ Len(sent) = 1
    /\ tools # <<>>
    /\ "tools" \in op.partial.given
    /\ op.partial.val.tools # <<>>
    /\ Range(sent[1].session.tools) =
          Range(op.partial.val.tools) \cup {tools[i].name : i \in 1..Len(tools)}

\* updateSession has been refused for an inline tool that is registered.
C10_WitnessDuplicate ==
    /\ op.name = "updateSession"
    /\ error = ErrToolAlreadyDefined
    /\ sent = <<>>

\* C3: cancelResponse(id, sampleCount), called while connected, on an item
\* of type message and role assistant that has an audio part sends
\* response.cancel and then one conversation.item.truncate with item_id id,
\* content_index the index of the first audio part and audio_end_ms
\* floor(sampleCount / sampleRate * 1000), and returns the item;
\* cancelResponse with no id sends only response.cancel and returns null.
C3_CancelResponseTruncates ==
    [][(op'.name = "cancelResponse" /\ connected) =>
        IF op'.id = ""
        THEN /\ error' = NoError
             /\ sent' = <<[type |-> "response.cancel"]>>
             /\ returned' = <<>>
        ELSE \A i \in 1..Len(items) :
                (/\ items[i].id = op'.id
                 /\ items[i].type = "message"
                 /\ items[i].role = "assistant"
                 /\ "audio" \in Range(items[i].content)) =>
                    /\ error' = NoError
                    /\ Types(sent') = <<"response.cancel", "conversation.item.truncate">>
                    /\ sent'[2].item_id = op'.id
                    /\ items[i].content[sent'[2].content_index + 1] = "audio"
                    /\ \A j \in 1..sent'[2].content_index :
                          items[i].content[j] # "audio"
                    /\ sent'[2].audio_end_ms * defaultFrequency
                          <= op'.sampleCount * 1000
                    /\ op'.sampleCount * 1000
                          < (sent'[2].audio_end_ms + 1) * defaultFrequency
                    /\ returned' = <<items[i]>>]_vars

\* cancelResponse has truncated an item at its second content part, the
\* first audio part, two milliseconds in.
C3_Witness ==
    /\ op.name = "cancelResponse"
    /\ error = NoError
    /\ Types(sent) = <<"response.cancel", "conversation.item.truncate">>
    /\ sent[2].content_index = 1
    /\ sent[2].audio_end_ms = 2
    /\ returned # <<>>

\* C4: cancelResponse(id) with an id that names no item, or an item that is
\* no message, or a message that is not the assistant's, fails and sends
\* nothing: no conversation.item.truncate and no response.cancel.
C4_CancelResponseRejects ==
    [][(/\ op'.name = "cancelResponse"
        /\ op'.id # ""
        /\ \A i \in 1..Len(items) :
              items[i].id = op'.id =>
                 (items[i].type # "message" \/ items[i].role # "assistant")) =>
            /\ error' \in {ErrItemNotFound, ErrNotMessage, ErrNotAssistant}
            /\ sent' = <<>>
            /\ returned' = <<>>]_vars

\* cancelResponse has been refused for a message of the user.
C4_Witness ==
    /\ op.name = "cancelResponse"
    /\ error = ErrNotAssistant
    /\ connected
    /\ \E i \in 1..Len(items) : items[i].id = op.id /\ items[i].role = "user"
    /\ sent = <<>>

\* A tool invocation ends in the step that settles its handler's promise
\* (callTool) or, when parsing, lookup or the handler's call throws, in the
\* step of the output_item.done event itself.
ToolInvocationEnds(id, call_id) ==
    \/ /\ op'.name = "callTool"
       /\ op'.call_id = call_id
       /\ connected
    \/ /\ op'.name = "response.output_item.done"
       /\ op'.id = id
       /\ pending' = pending
       /\ \E i \in 1..Len(items') :
             /\ items'[i].id = id
             /\ items'[i].type = "function_call"
             /\ items'[i].call_id = call_id

\* C2: every tool invocation, whatever its outcome, sends exactly one
\* conversation.item.create carrying a function_call_output with the call's
\* call_id and exactly one response.create after it, and no fault escapes it.
C2_ToolInvocationAlwaysAnswers ==
    [][\A id \in ItemIds :
        ToolInvocationEnds(id, CallId(id)) =>
            /\ error' = NoError
            /\ Len(sent') >= 2
            /\ sent'[1].type = "conversation.item.create"
            /\ sent'[1].item_type = "function_call_output"
            /\ sent'[1].call_id = CallId(id)
            /\ CountType(sent', "conversation.item.create") = 1
            /\ CountType(sent', "response.create") = 1
            /\ sent'[Len(sent')].type = "response.create"]_vars

\* C8: an output_item.done event whose item is incomplete invokes no tool
\* handler, sends no function_call_output and requests no response.
C8_IncompleteItemInvokesNoTool ==
    [][(op'.name = "response.output_item.done" /\ op'.status = "incomplete") =>
        /\ pending' = pending
        /\ sent' = <<>>]_vars


\* C11: deleteItem(id) with an id that names no item of the conversation, an
\* item already deleted included, fails and sends no
\* conversation.item.delete.
C11_DeleteItemOfUnknownIdFails ==
    [][(/\ op'.name = "deleteItem"
        /\ connected
        /\ \A i \in 1..Len(items) : items[i].id # op'.id) =>
            /\ error' # NoError
            /\ sent' = <<>>]_vars


\* C12: appendInputAudio of an empty buffer sends nothing and changes
\* nothing; of a non-empty buffer it sends exactly one
\* input_audio_buffer.append and appends the samples to the local buffer.  No
\* other step changes the local buffer except a commit or a reset, which
\* empty it: the buffer is the concatenation, in order, of the buffers
\* appended since the last commit or reset.
C12_AppendInputAudioConcatenates ==
    [][/\ (op'.name = "appendInputAudio" /\ connected) =>
            /\ error' = NoError
            /\ IF op'.samples = <<>>
               THEN /\ sent' = <<>>
                    /\ Client' = Begin
               ELSE /\ sent' = <<[type |-> "input_audio_buffer.append",
                                  audio |-> op'.samples]>>
                    /\ inputAudioBuffer' = inputAudioBuffer \o op'.samples
                    /\ dispatched' = <<RealtimeEvent("client",
                                                     "input_audio_buffer.append")>>
                    /\ Client' = [Begin EXCEPT !.sent = sent',
                                               !.dispatched = dispatched',
                                               !.inputAudioBuffer = inputAudioBuffer']
       /\ (op'.name = "appendInputAudio" /\ ~connected) =>
            inputAudioBuffer' = inputAudioBuffer
       /\ op'.name # "appendInputAudio" =>
            \/ inputAudioBuffer' = inputAudioBuffer
            \/ /\ inputAudioBuffer' = <<>>
               /\ \/ op'.name = "reset"
                  \/ CountType(sent', "input_audio_buffer.commit") = 1]_vars

\* A second non-empty buffer has been appended to a non-empty local buffer.
C12_Witness ==
    /\ op.name = "appendInputAudio"
    /\ op.samples # <<>>
    /\ CountType(sent, "input_audio_buffer.append") = 1
    /\ Len(inputAudioBuffer) > Len(op.samples)

\* appendInputAudio of an empty buffer while connected.
C12_WitnessEmpty ==
    /\ op.name = "appendInputAudio"
    /\ op.samples = <<>>
    /\ connected
    /\ inputAudioBuffer # <<>>
    /\ sent = <<>>


\* C13: sendUserMessageContent(content) sends a conversation.item.create for
\* a user message exactly when content is non-empty, first of all it sends,
\* and in every case sends exactly one response.create, last of all it
\* sends.
C13_SendUserMessageContent ==
    [][(op'.name = "sendUserMessageContent" /\ connected) =>
        /\ error' = NoError
        /\ CountType(sent', "conversation.item.create")
              = (IF op'.content # <<>> THEN 1 ELSE 0)
        /\ op'.content # <<>> =>
              /\ sent'[1].type = "conversation.item.create"
              /\ sent'[1].item.type = "message"
              /\ sent'[1].item.role = "user"
              /\ Len(sent'[1].item.content) = Len(op'.content)
        /\ CountType(sent', "response.create") = 1
        /\ sent'[Len(sent')].type = "response.create"]_vars

\* A user message has been sent and the response requested after a commit of
\* the buffered audio.
C13_Witness ==
    /\ op.name = "sendUserMessageContent"
    /\ op.content # <<>>
    /\ Types(sent) = <<"conversation.item.create", "input_audio_buffer.commit",
                       "response.create">>

\* Empty content: only the response is requested.
C13_WitnessEmpty ==
    /\ op.name = "sendUserMessageContent"
    /\ op.content = <<>>
    /\ Types(sent) = <<"response.create">>


\* C14: for an output_item.done event of an item of the conversation,
\* conversation.updated is announced for the item and then
\* conversation.item.completed exactly when the item's status is completed;
\* for conversation.item.created, conversation.updated and
\* conversation.item.appended are announced for the item, and then
\* conversation.item.completed exactly when its status is completed.
C14_Announcements ==
    [][\A id \in ItemIds :
        LET found == getItem(Client, id)'
            completed == IF found[1].status = "completed"
                         THEN <<Announce("conversation.item.completed", found[1])>>
                         ELSE <<>>
        IN /\ (/\ op'.name = "response.output_item.done"
               /\ op'.id = id
               /\ getItem(Client, id) # <<>>) =>
                  /\ found # <<>>
                  /\ found[1].status = op'.status
                  /\ Announcements(dispatched')
                        = <<Announce("conversation.updated", found[1])>>
                              \o completed
           /\ (op'.name = "conversation.item.created" /\ op'.id = id) =>
                  /\ found # <<>>
                  /\ Announcements(dispatched')
                        = <<Announce("conversation.updated", found[1]),
                            Announce("conversation.item.appended", found[1])>>
                              \o completed]_vars

\* An output_item.done event has completed an item.
C14_Witness ==
    /\ op.name = "response.output_item.done"
    /\ Types(Announcements(dispatched)) = <<"conversation.updated", "conversation.item.completed">>

\* An output_item.done event has left an item incomplete.
C14_WitnessIncomplete ==
    /\ op.name = "response.output_item.done"
    /\ op.status = "incomplete"
    /\ Types(Announcements(dispatched)) = <<"conversation.updated">>

\* The server has created an item that is completed, and one that is not.
C14_WitnessCreated ==
    /\ op.name = "conversation.item.created"
    /\ Types(Announcements(dispatched)) = <<"conversation.updated", "conversation.item.appended",
                             "conversation.item.completed">>
    /\ Len(items) = 2
    /\ items[1].status = "in_progress"


\* C15: on an input_audio_buffer.speech_started event the client announces
\* conversation.interrupted exactly once, and after it only the
\* realtime.event that relays the event of the server; it sends no command,
\* and leaves the conversation, the input audio buffer and the rest of its
\* state as they were.
C15_SpeechStartedOnlyAnnounces ==
    [][op'.name = "input_audio_buffer.speech_started" =>
        /\ Types(dispatched') = <<"conversation.interrupted", "realtime.event">>
        /\ sent' = <<>>
        /\ error' = NoError
        /\ Client' = [Begin EXCEPT !.dispatched = dispatched']]_vars

\* Speech has started while the conversation holds an item, the input audio
\* buffer holds samples and committed audio is queued.
C15_Witness ==
    /\ op.name = "input_audio_buffer.speech_started"
    /\ Types(dispatched) = <<"conversation.interrupted", "realtime.event">>
    /\ items # <<>>
    /\ inputAudioBuffer # <<>>


\* C16, as stated: a caller of waitForSessionCreated that waits when a
\* session.created event is delivered eventually returns.
C16_ReturnsAfterSessionCreated ==
    (waiting > 0 /\ op.name = "session.created") ~> (waiting = 0)

\* C16: waitForSessionCreated fails at once when the transport is not
\* connected; called while connected it returns at a test of the flag that
\* finds it true, and waits otherwise; the flag is true only from a
\* session.created event to the next disconnect() or reset(); a caller that
\* waits while the flag is true returns unless a disconnect() or reset()
\* clears the flag before the caller's next test of it.
C16_WaitForSessionCreated ==
    /\ [][/\ (op'.name = "waitForSessionCreated" /\ ~connected) =>
               /\ error' = ErrNotConnectedUseConnect
               /\ waiting' = waiting
          /\ (op'.name = "waitForSessionCreated" /\ connected) =>
               /\ error' = NoError
               /\ waiting' = (IF sessionCreated THEN waiting ELSE waiting + 1)
          /\ waiting' < waiting =>
               /\ op'.name = "setTimeout"
               /\ sessionCreated
               /\ waiting' = waiting - 1
          /\ sessionCreated' =>
               \/ op'.name = "session.created"
               \/ sessionCreated /\ op'.name \notin {"disconnect", "reset"}
          /\ op'.name \in {"disconnect", "reset"} => ~sessionCreated']_vars
    /\ (waiting > 0 /\ sessionCreated) ~> (waiting = 0 \/ ~sessionCreated)

\* A caller that waited has returned after the session.created event.
C16_Witness ==
    /\ op.name = "setTimeout"
    /\ waiting = 0
    /\ sessionCreated
    /\ connected

\* A caller waits with the flag cleared by a disconnect().
C16_WitnessCleared ==
    /\ op.name = "disconnect"
    /\ waiting > 0
    /\ ~sessionCreated


\* C17: when the processing of a server event yields no item, the client
\* announces no conversation.updated, no conversation.item.appended and no
\* conversation.item.completed for it, invokes no tool and raises no error,
\* response.output_item.done included.
C17_NullItemIsIgnored ==
    [][(/\ op'.name \in {"response.output_item.done",
                         "response.function_call_arguments.delta"}
        /\ getItem(Client, op'.id) = <<>>) =>
            /\ Announcements(dispatched') = <<>>
            /\ pending' = pending
            /\ sent' = <<>>
            /\ error' = NoError]_vars


\* C18: a pending tool handler does not block the events of the server: an
\* event that arrives while a handler is pending is applied to the
\* conversation and leaves the pending handlers pending.  The step that
\* invokes a handler sends nothing; the result of a handler is sent only by
\* the step in which that handler settles; and the response.create of an
\* invocation is sent after the function_call_output of the same invocation.
C18_PendingToolDoesNotBlock ==
    [][/\ Len(pending') > Len(pending) =>
            /\ op'.name = "response.output_item.done"
            /\ sent' = <<>>
            /\ SubSeq(pending', 1, Len(pending)) = pending
            /\ Len(pending') = Len(pending) + 1
            /\ pending'[Len(pending')].call_id = CallId(op'.id)
       /\ \A id \in ItemIds :
            LET before == getItem(Client, id)
                after == getItem(Client, id)'
            IN /\ (/\ pending # <<>>
                   /\ op' = [name |-> "response.function_call_arguments.delta",
                             id |-> id]
                   /\ before # <<>>) =>
                      /\ Len(after[1].arguments) = Len(before[1].arguments) + 1
                      /\ pending' = pending
                      /\ sent' = <<>>
               /\ (/\ pending # <<>>
                   /\ op'.name = "response.output_item.done"
                   /\ op'.id = id
                   /\ before # <<>>) =>
                      /\ after[1].status = op'.status
                      /\ SubSeq(pending', 1, Len(pending)) = pending
               /\ (/\ pending # <<>>
                   /\ op' = [name |-> "conversation.item.created", id |-> id]) =>
                      /\ after # <<>>
                      /\ Len(items') = Len(items) + 1
                      /\ pending' = pending
                      /\ sent' = <<>>
       /\ \A k \in 1..Len(sent') :
            (sent'[k].type = "conversation.item.create" /\ ~sent'[k].isError) =>
                /\ op'.name = "callTool"
                /\ \E i \in 1..Len(pending) :
                      /\ pending[i].call_id = sent'[k].call_id
                      /\ pending' = Remove(pending, i)
       /\ op'.name \in {"callTool", "response.output_item.done"} =>
            \A j \in 1..Len(sent') :
                sent'[j].type = "response.create" =>
                    \E k \in 1..(j - 1) :
                        /\ sent'[k].type = "conversation.item.create"
                        /\ sent'[k].call_id = (IF op'.name = "callTool"
                                               THEN op'.call_id
                                               ELSE CallId(op'.id))]_vars

\* The server has created an item, now in the conversation, while the
\* handler invoked for another item was pending.
C18_Witness ==
    /\ op.name = "conversation.item.created"
    /\ Len(pending) = 1
    /\ pending[1].call_id # CallId(op.id)
    /\ getItem(Client, op.id) # <<>>
    /\ Len(items) = 2

\* The handler invoked last has settled first: its output and the request
\* of a response are sent while the other handler is pending.
C18_WitnessSettled ==
    /\ op.name = "callTool"
    /\ Len(pending) = 1
    /\ pending[1].call_id # op.call_id
    /\ Len(sent) = 2
    /\ sent[1].type = "conversation.item.create"
    /\ sent[1].call_id = op.call_id
    /\ sent[2].type = "response.create"


\* C19: an updateSession call that throws the duplicate-tool error leaves
\* every field of the stored session configuration, tools included, as it
\* was before the call, and sends nothing.
C19_FailingUpdateSessionIsAtomic ==
    [][(op'.name = "updateSession" /\ error' = ErrToolAlreadyDefined) =>
        /\ sessionConfig' = sessionConfig
        /\ sent' = <<>>]_vars


\* C20: after an addTool or removeTool call made while connected, the tools
\* of the session.update sent last are exactly the tools of the registry.
C20_AdvertisedToolsAreRegistry ==
    (/\ op.name \in {"addTool", "removeTool"}
     /\ connected
     /\ error = NoError) =>
        /\ advertised # <<>>
        /\ Range(advertised[1]) = {tools[i].name : i \in 1..Len(tools)}


\* C21: a cancelResponse(id) call that throws, for an item that is not
\* found, is no message, is not the assistant's or has no audio part, has
\* sent no command.
C21_FailingCancelResponseSendsNothing ==
    [][(/\ op'.name = "cancelResponse"
        /\ error' \in {ErrItemNotFound, ErrNotMessage, ErrNotAssistant,
                       ErrNoAudio}) =>
            sent' = <<>>]_vars

====
